---- MODULE Spec2Model ----
(***************************************************************************)
(* Model of the PDF audio server (src/server.ts): the text normaliser and  *)
(* chunker, the in-memory document table, the audio cache directory, the   *)
(* scratch files of generateTTS and the request handlers.                  *)
(*                                                                         *)
(* Strings are sequences of atoms.  An atom is a TLA+ string naming one    *)
(* UTF-16 code unit ("a", ".", " ", "U2019", ...), except the block atoms  *)
(* of Blocks, each of which stands for BlockLen copies of one letter, so   *)
(* that texts longer than the chunker's default maxChars stay small.       *)
(***************************************************************************)
EXTENDS Integers, Sequences, FiniteSets, TLC

\* ------------------------------------------------------------------ strings

\* A block atom stands for BlockLen consecutive letters (a word without
\* whitespace, digits or punctuation); no modelled operation cuts inside one.
BlockLen == 6000

Blocks == {"a{N}", "b{N}"}

Width(c) == IF c \in Blocks THEN BlockLen ELSE 1

\* String.prototype.length
RECURSIVE StrLen(_)
StrLen(s) == IF s = <<>> THEN 0 ELSE Width(Head(s)) + StrLen(Tail(s))

\* \s of a JavaScript regular expression, over the modelled alphabet
IsSpace(c) == c \in {" ", "\n", "\t"}

\* \d
IsDigit(c) == c \in {"0", "1", "2", "3", "4", "5", "6", "7", "8", "9"}

\* [.!?]
IsTerminator(c) == c \in {".", "!", "?"}

\* [\x00-\x08\x0b\x0c\x0e-\x1f\x7f-\x9f]
IsControl(c) == c \in {"U0007", "U000B", "U007F", "U0085"}

\* [a-zA-Z0-9]
IsAlnum(c) ==
    \/ IsDigit(c)
    \/ c \in {"a", "b", "c", "d", "e", "f", "g", "h", "i", "j", "k", "l", "m",
              "n", "o", "p", "q", "r", "s", "t", "u", "v", "w", "x", "y", "z"}
    \/ c \in {"A", "B", "C", "D", "E", "F", "G", "H", "I", "J", "K", "L", "M",
              "N", "O", "P", "Q", "R", "S", "T", "U", "V", "W", "X", "Y", "Z"}

RECURSIVE TrimStart(_)
TrimStart(s) ==
    IF s # <<>> /\ IsSpace(Head(s)) THEN TrimStart(Tail(s)) ELSE s

RECURSIVE TrimEnd(_)
TrimEnd(s) ==
    IF s # <<>> /\ IsSpace(s[Len(s)])
    THEN TrimEnd(SubSeq(s, 1, Len(s) - 1))
    ELSE s

\* String.prototype.trim
Trim(s) == TrimEnd(TrimStart(s))

\* ---------------------------------------------------------------- cleanText

\* .replace(/[\x00-\x08\x0b\x0c\x0e-\x1f\x7f-\x9f]/g, '')
StripControl(s) == SelectSeq(s, LAMBDA c : ~IsControl(c))

\* the four single-character replacements and the ellipsis expansion
MapPunct(c) ==
    IF c \in {"U2018", "U2019"} THEN <<"'">>
    ELSE IF c \in {"U201C", "U201D"} THEN <<"\"">>
    ELSE IF c \in {"U2013", "U2014"} THEN <<"-">>
    ELSE IF c = "U2026" THEN <<".", ".", ".">>
    ELSE <<c>>

RECURSIVE ReplacePunct(_)
ReplacePunct(s) ==
    IF s = <<>> THEN <<>> ELSE MapPunct(Head(s)) \o ReplacePunct(Tail(s))

\* .replace(/\s+/g, ' ')
RECURSIVE CollapseSpace(_)
CollapseSpace(s) ==
    IF s = <<>> THEN <<>>
    ELSE IF IsSpace(Head(s))
         THEN <<" ">> \o CollapseSpace(TrimStart(s))
         ELSE <<Head(s)>> \o CollapseSpace(Tail(s))

\* .replace(/^\d+\s*$/gm, ''): it runs after the whitespace collapse, which
\* has already turned every line terminator into a space, so ^ and $ only
\* match at the two ends of the string: the whole string is digits followed
\* by optional whitespace, or nothing is removed.
DropDigitLines(s) ==
    LET body == TrimEnd(s)
    IN  IF body # <<>> /\ \A i \in 1..Len(body) : IsDigit(body[i])
        THEN <<>>
        ELSE s

\* cleanText of a string; cleanText(undefined) is CleanText(<<>>): both
\* are falsy and return ''.
CleanText(text) ==
    IF text = <<>> THEN <<>>
    ELSE Trim(DropDigitLines(CollapseSpace(ReplacePunct(StripControl(text)))))

\* ---------------------------------------------------------- splitIntoChunks

\* text.split(/(?<=[.!?])\s+/): a separator is a maximal whitespace run whose
\* preceding character is a sentence terminator.
RECURSIVE SplitFrom(_, _, _, _)
SplitFrom(s, i, piece, out) ==
    IF i > Len(s) THEN Append(out, piece)
    ELSE IF IsSpace(s[i]) /\ i > 1 /\ IsTerminator(s[i - 1])
         THEN LET rest == TrimStart(SubSeq(s, i, Len(s)))
              IN  SplitFrom(s, Len(s) - Len(rest) + 1, <<>>, Append(out, piece))
         ELSE SplitFrom(s, i + 1, Append(piece, s[i]), out)

Sentences(text) == SplitFrom(text, 1, <<>>, <<>>)

\* Fits with the comparison off by one (<= for <)
FitsInclusive(current, sentence, maxChars) ==
    StrLen(current \o sentence) <= maxChars

\* the loop condition of splitIntoChunks
Fits(current, sentence, maxChars) == StrLen(current \o sentence) < maxChars

\* ChunkStep without the `if (current)` guard of the push
ChunkStepUnguarded(st, sentence, maxChars) ==
    IF Fits(st.current, sentence, maxChars)
    THEN [chunks |-> st.chunks, current |-> st.current \o sentence \o <<" ">>]
    ELSE [chunks |-> Append(st.chunks, Trim(st.current)),
          current |-> sentence \o <<" ">>]

\* one iteration of the for loop
ChunkStep(st, sentence, maxChars) ==
    IF Fits(st.current, sentence, maxChars)
    THEN [chunks |-> st.chunks, current |-> st.current \o sentence \o <<" ">>]
    ELSE [chunks |-> IF st.current # <<>>
                     THEN Append(st.chunks, Trim(st.current))
                     ELSE st.chunks,
          current |-> sentence \o <<" ">>]

RECURSIVE ChunkLoop(_, _, _)
ChunkLoop(sentences, k, maxChars) ==
    IF k = 0 THEN [chunks |-> <<>>, current |-> <<>>]
    ELSE ChunkStep(ChunkLoop(sentences, k - 1, maxChars), sentences[k], maxChars)

\* SplitIntoChunks without the push after the loop
SplitIntoChunksNoFlush(text, maxChars) ==
    LET sentences == Sentences(text)
    IN  ChunkLoop(sentences, Len(sentences), maxChars).chunks

SplitIntoChunks(text, maxChars) ==
    LET sentences == Sentences(text)
        st == ChunkLoop(sentences, Len(sentences), maxChars)
    IN  IF Trim(st.current) # <<>>
        THEN Append(st.chunks, Trim(st.current))
        ELSE st.chunks

\* ------------------------------------------------- numbers and literals

Digits == <<"0", "1", "2", "3", "4", "5", "6", "7", "8", "9">>

Base36Digits ==
    Digits \o <<"a", "b", "c", "d", "e", "f", "g", "h", "i", "j", "k", "l", "m",
                "n", "o", "p", "q", "r", "s", "t", "u", "v", "w", "x", "y", "z">>

\* the decimal digits of n >= 0
RECURSIVE DecDigits(_)
DecDigits(n) ==
    IF n < 10 THEN <<Digits[n + 1]>>
    ELSE Append(DecDigits(n \div 10), Digits[(n % 10) + 1])

\* `${n}` of an integer
ToDec(n) == IF n < 0 THEN <<"-">> \o DecDigits(-n) ELSE DecDigits(n)

\* n.toString(36), n >= 0
RECURSIVE Base36(_)
Base36(n) ==
    IF n < 36 THEN <<Base36Digits[n + 1]>>
    ELSE Append(Base36(n \div 36), Base36Digits[(n % 36) + 1])

DigitVal(c) == CHOOSE d \in 0..9 : Digits[d + 1] = c

\* Integers from Huge on are all represented by Huge: the model only ever
\* compares a parsed index with 0 and with an array length below Huge.
Huge == 1000000000

RECURSIVE DecValue(_)
DecValue(ds) ==
    IF Len(ds) > 9 THEN Huge
    ELSE IF ds = <<>> THEN 0
    ELSE 10 * DecValue(SubSeq(ds, 1, Len(ds) - 1)) + DigitVal(ds[Len(ds)])

\* A JSON value of a request: a string, or an integer number written out in
\* decimal (an optional "-" and its digits, no leading zeros).
JsonString(chars) == [kind |-> "string", chars |-> chars]

JsonNumber(chars) == [kind |-> "number", chars |-> chars]

RECURSIVE TrimZerosEnd(_)
TrimZerosEnd(ds) ==
    IF ds # <<>> /\ ds[Len(ds)] = "0"
    THEN TrimZerosEnd(SubSeq(ds, 1, Len(ds) - 1))
    ELSE ds

\* Number::toString of an integer-valued number: plain decimal digits below
\* 10^21, exponent notation (d.ddde+n) from 10^21 on.
NumberToString(chars) ==
    LET neg == chars # <<>> /\ Head(chars) = "-"
        ds == IF neg THEN Tail(chars) ELSE chars
        frac == TrimZerosEnd(Tail(ds))
    IN  IF Len(ds) <= 21 THEN chars
        ELSE (IF neg THEN <<"-">> ELSE <<>>)
             \o <<Head(ds)>>
             \o (IF frac = <<>> THEN <<>> ELSE <<".">> \o frac)
             \o <<"e", "+">> \o DecDigits(Len(ds) - 1)

\* ToString, the first step of parseInt on its argument
JsToString(v) == IF v.kind = "number" THEN NumberToString(v.chars) ELSE v.chars

RECURSIVE DigitPrefix(_)
DigitPrefix(s) ==
    IF s # <<>> /\ IsDigit(Head(s))
    THEN <<Head(s)>> \o DigitPrefix(Tail(s))
    ELSE <<>>

NaN == [nan |-> TRUE, val |-> 0]

\* parseInt(v) without a radix: leading whitespace is skipped, then an
\* optional sign, then the longest run of decimal digits; NaN if there is
\* none.  (No modelled input starts with 0x.)
ParseInt(v) ==
    LET s == TrimStart(JsToString(v))
        neg == s # <<>> /\ Head(s) = "-"
        body == IF s # <<>> /\ Head(s) \in {"-", "+"} THEN Tail(s) ELSE s
        ds == DigitPrefix(body)
    IN  IF ds = <<>> THEN NaN
        ELSE [nan |-> FALSE, val |-> IF neg THEN -DecValue(ds) ELSE DecValue(ds)]

\* index < 0 || index >= length: every comparison with NaN is false
OutOfRange(index, length) ==
    ~index.nan /\ (index.val < 0 \/ index.val >= length)

\* `${index}`
IndexToString(index) == IF index.nan THEN <<"N", "a", "N">> ELSE ToDec(index.val)

\* chunks[index]: undefined unless index is an integer inside the array
HasChunk(chunks, index) ==
    ~index.nan /\ index.val >= 0 /\ index.val < Len(chunks)

ChunkAt(chunks, index) ==
    IF HasChunk(chunks, index) THEN chunks[index.val + 1] ELSE <<>>

\* voice.replace(/[^a-zA-Z0-9]/g, '')
Sanitize(voice) == SelectSeq(voice, IsAlnum)

\* `${pdfId}_chunk_${index}_${voice.replace(...)}.mp3`
AudioFilename(pdfId, index, voice) ==
    pdfId \o <<"_", "c", "h", "u", "n", "k", "_">> \o IndexToString(index)
          \o <<"_">> \o Sanitize(voice) \o <<".", "m", "p", "3">>

\* `custom_${Date.now()}.mp3`
CustomFilename(t) ==
    <<"c", "u", "s", "t", "o", "m", "_">> \o ToDec(t) \o <<".", "m", "p", "3">>

\* `/audio/${audioFilename}`
AudioUrl(filename) == <<"/", "a", "u", "d", "i", "o", "/">> \o filename

\* `/tmp/tts-${Date.now()}.txt`
TempFile(t) ==
    <<"/", "t", "m", "p", "/", "t", "t", "s", "-">> \o ToDec(t)
        \o <<".", "t", "x", "t">>

\* `${pdfId}_${index}`
ProgressKey(pdfId, index) == pdfId \o <<"_">> \o IndexToString(index)

\* state of the chunker when it is run on its own (see ChunkSpec)
VARIABLES
    chText,      \* the string handed to cleanText / splitIntoChunks
    chMax,       \* the maxChars argument
    chStage,     \* "raw" | "clean" (cleanText applied) | "split"
    chChunks     \* the result of splitIntoChunks, once chStage = "split"

chVars == <<chText, chMax, chStage, chChunks>>

\* ---------------------------------------------------------- server state

\* Function update and removal for the tables keyed by strings (Map.set,
\* creating a file, fs.unlinkSync).
Put(f, k, v) == [x \in (DOMAIN f) \cup {k} |-> IF x = k THEN v ELSE f[x]]

Drop(f, k) == [x \in (DOMAIN f) \ {k} |-> f[x]]

\* Date.now() at process start, and how many milliseconds the clock advances
StartTime == 35

MaxTicks == 1

\* request slots: each handles one request; uploads have slots of their own
Req == {"r1", "r2"}

Uploaders == {"u1", "u2"}

\* defaults of the destructuring in the handlers and of generateTTS
DefaultVoice ==
    <<"e", "n", "-", "U", "S", "-", "A", "r", "i", "a",
      "N", "e", "u", "r", "a", "l">>

DefaultRate == "+0%"

\* an absent property of req.body
UndefinedVoice == <<"<undefined>">>

UndefinedRate == "<undefined>"

VoiceOrDefault(v) == IF v = UndefinedVoice THEN DefaultVoice ELSE v

RateOrDefault(x) == IF x = UndefinedRate THEN DefaultRate ELSE x

\* minimum text lengths of the two synthesis handlers
MinChunkChars == 10

MinCustomChars == 2

\* default maxChars of splitIntoChunks, used by the upload handler
DefaultMaxChars == 10000

VARIABLES
    now,          \* Date.now()
    pdfStore,     \* pdfId -> PDFData
    ttsProgress,  \* progress key -> status
    audio,        \* AUDIO_DIR: file name -> content
    scratch,      \* /tmp: scratch file name -> content
    up,           \* upload slot -> state of its /api/upload request
    req           \* request slot -> state of its request

srvVars == <<now, pdfStore, ttsProgress, audio, scratch, up, req>>

NoArtifact ==
    [text |-> <<>>, voice |-> <<>>, rate |-> "", complete |-> FALSE, by |-> "nobody"]

NoResp ==
    [status |-> 0, error |-> "", cached |-> FALSE, audioUrl |-> <<>>,
     artifact |-> NoArtifact, text |-> <<>>, hasText |-> FALSE]

\* A request slot.  kind, pc and the handler's locals (pdfId .. payload);
\* the state of its edge-tts child process (spawned, toolText, outcome);
\* the response sent (resp); and two observations for stating properties:
\* existed (whether the artifact path held a file when the handler looked)
\* and after (the requests that had already responded when this one began).
IdleReq ==
    [kind |-> "none", pc |-> "idle", pdfId |-> <<>>,
     chunkIndex |-> JsonString(<<>>), voice |-> <<>>, rate |-> "",
     index |-> NaN, nChunks |-> 0, known |-> FALSE, text |-> <<>>,
     audioFilename |-> <<>>, existed |-> FALSE, tempFile |-> <<>>,
     payload |-> <<>>, spawned |-> FALSE, toolText |-> <<>>,
     outcome |-> "none", resp |-> NoResp, after |-> {}]

IdleUpload == [pc |-> "idle", name |-> "", text |-> <<>>, pdfId |-> <<>>, status |-> 0]

SrvInit ==
    /\ now = StartTime
    /\ pdfStore = <<>>
    /\ ttsProgress = <<>>
    /\ audio = <<>>
    /\ scratch = <<>>
    /\ up = [u \in Uploaders |-> IdleUpload]
    /\ req = [r \in Req |-> IdleReq]

\* The next free slot: slots are taken in order, r1 before r2, u1 before u2.
FreeReq(r) == req[r].pc = "idle" /\ (r = "r2" => req["r1"].pc # "idle")

FreeUpload(u) == up[u].pc = "idle" /\ (u = "u2" => up["u1"].pc # "idle")

Responded == {r \in Req : req[r].pc = "done"}

\* the clock advances
Tick ==
    /\ now < StartTime + MaxTicks
    /\ now' = now + 1
    /\ UNCHANGED <<pdfStore, ttsProgress, audio, scratch, up, req>>
    /\ UNCHANGED chVars

\* ----------------------------------------------------------- /api/upload

\* no file, or one the multer filter refused
UploadNoFile(u) ==
    /\ FreeUpload(u)
    /\ up' = [up EXCEPT ![u] = [IdleUpload EXCEPT !.pc = "done", !.status = 400]]
    /\ UNCHANGED <<now, pdfStore, ttsProgress, audio, scratch, req>>
    /\ UNCHANGED chVars

\* the handler up to `await pdfParse(buffer)`
UploadBegin(u, file) ==
    /\ FreeUpload(u)
    /\ up' = [up EXCEPT ![u] =
                [IdleUpload EXCEPT !.pc = "parsing", !.name = file.name,
                                   !.text = file.text]]
    /\ UNCHANGED <<now, pdfStore, ttsProgress, audio, scratch, req>>
    /\ UNCHANGED chVars

\* pdfParse rejects: the catch block answers 500
UploadError(u) ==
    /\ up[u].pc = "parsing"
    /\ up' = [up EXCEPT ![u].pc = "done", ![u].status = 500]
    /\ UNCHANGED <<now, pdfStore, ttsProgress, audio, scratch, req>>
    /\ UNCHANGED chVars

\* pdfId = Date.now().toString(36)
NewPdfId(t) == Base36(t)

\* pdfParse resolves: the rest of the handler, which runs without awaiting
UploadParsed(u) ==
    /\ up[u].pc = "parsing"
    /\ LET fullText == CleanText(up[u].text)
           chunks == SplitIntoChunks(fullText, DefaultMaxChars)
           pdfId == NewPdfId(now)
       IN  /\ pdfStore' = Put(pdfStore, pdfId,
                              [id |-> pdfId, filename |-> up[u].name,
                               totalChars |-> StrLen(fullText), chunks |-> chunks])
           /\ up' = [up EXCEPT ![u].pc = "done", ![u].status = 200,
                               ![u].pdfId = pdfId]
    /\ UNCHANGED <<now, ttsProgress, audio, scratch, req>>
    /\ UNCHANGED chVars

\* ------------------------------------------- /api/pdf/:pdfId/chunk/:chunkIndex

GetChunk(r, pdfId, chunkIndex) ==
    /\ FreeReq(r)
    /\ LET index == ParseInt(chunkIndex)
           known == pdfId \in DOMAIN pdfStore
           chunks == IF known THEN pdfStore[pdfId].chunks ELSE <<>>
           base == [IdleReq EXCEPT !.kind = "chunk", !.pc = "done",
                                   !.pdfId = pdfId, !.chunkIndex = chunkIndex,
                                   !.known = known, !.after = Responded]
       IN  req' = [req EXCEPT ![r] =
             IF ~known
             THEN [base EXCEPT !.resp = [NoResp EXCEPT !.status = 404,
                                                       !.error = "PDF not found"]]
             ELSE IF OutOfRange(index, Len(chunks))
             THEN [base EXCEPT !.index = index, !.nChunks = Len(chunks),
                               !.resp = [NoResp EXCEPT !.status = 400,
                                                       !.error = "Invalid chunk index"]]
             ELSE [base EXCEPT !.index = index, !.nChunks = Len(chunks),
                               !.resp = [NoResp EXCEPT !.status = 200,
                                                       !.text = ChunkAt(chunks, index),
                                                       !.hasText = HasChunk(chunks, index)]]]
    /\ UNCHANGED <<now, pdfStore, ttsProgress, audio, scratch, up>>
    /\ UNCHANGED chVars

\* ------------------------------------------------------------ generateTTS

\* CacheHit with the lookup never finding the file
CacheHitNever(filename) == FALSE

\* fs.existsSync(audioPath)
CacheHit(filename) == filename \in DOMAIN audio

\* fs.writeFileSync(tempFile, text): creates the file or rewrites it in place
WriteScratch(files, path, text, r) ==
    Put(files, path,
        [text |-> text,
         writers |-> (IF path \in DOMAIN files THEN files[path].writers ELSE {})
                     \cup {r}])

\* the finally block: if (fs.existsSync(tempFile)) fs.unlinkSync(tempFile)
Cleanup(files, path) == IF path \in DOMAIN files THEN Drop(files, path) ELSE files

\* args: --rate is passed unless rate is empty or '+0%', the tool's own default
ToolRate(rate) == IF rate = "" \/ rate = DefaultRate THEN DefaultRate ELSE rate

\* generateTTS up to `await execFileAsync(...)`: the scratch file is written
\* and the child process spawned
Spawn(rec, r, text, filename) ==
    [rec EXCEPT !.pc = "exec", !.audioFilename = filename,
                !.tempFile = TempFile(now), !.payload = text, !.spawned = TRUE]

\* --------------------------------------------------------------- /api/tts

\* The handler up to its first await that matters: a rejection, the cached
\* answer (getAudioDuration only reads the file, and its result, the
\* duration, is not modelled), or the start of generateTTS.
TtsStart(r, pdfId, chunkIndex, voiceIn, rateIn) ==
    /\ FreeReq(r)
    /\ LET voice == VoiceOrDefault(voiceIn)
           rate == RateOrDefault(rateIn)
           known == pdfId \in DOMAIN pdfStore
           chunks == IF known THEN pdfStore[pdfId].chunks ELSE <<>>
           index == ParseInt(chunkIndex)
           text == ChunkAt(chunks, index)
           filename == AudioFilename(pdfId, index, voice)
           base == [IdleReq EXCEPT !.kind = "tts", !.pc = "done", !.pdfId = pdfId,
                                   !.chunkIndex = chunkIndex, !.voice = voice,
                                   !.rate = rate, !.known = known,
                                   !.after = Responded]
           parsed == [base EXCEPT !.index = index, !.nChunks = Len(chunks)]
           looked == [parsed EXCEPT !.text = text, !.audioFilename = filename,
                                    !.existed = filename \in DOMAIN audio]
       IN  IF ~known
           THEN /\ req' = [req EXCEPT ![r] =
                     [base EXCEPT !.resp = [NoResp EXCEPT !.status = 404,
                                                          !.error = "PDF not found"]]]
                /\ UNCHANGED <<ttsProgress, scratch>>
           ELSE IF OutOfRange(index, Len(chunks))
           THEN /\ req' = [req EXCEPT ![r] =
                     [parsed EXCEPT !.resp = [NoResp EXCEPT !.status = 400,
                                                            !.error = "Invalid chunk index"]]]
                /\ UNCHANGED <<ttsProgress, scratch>>
           ELSE IF ~HasChunk(chunks, index)
           THEN \* text is undefined: text.length throws, the catch answers 500
                /\ req' = [req EXCEPT ![r] =
                     [parsed EXCEPT !.resp = [NoResp EXCEPT !.status = 500,
                                                            !.error = "TypeError"]]]
                /\ UNCHANGED <<ttsProgress, scratch>>
           ELSE IF StrLen(text) < MinChunkChars
           THEN /\ req' = [req EXCEPT ![r] =
                     [parsed EXCEPT !.text = text,
                                    !.resp = [NoResp EXCEPT !.status = 400,
                                                            !.error = "Chunk too short"]]]
                /\ UNCHANGED <<ttsProgress, scratch>>
           ELSE IF CacheHit(filename)
           THEN /\ req' = [req EXCEPT ![r] =
                     [looked EXCEPT !.resp = [NoResp EXCEPT !.status = 200,
                                                            !.cached = TRUE,
                                                            !.audioUrl = AudioUrl(filename),
                                                            !.artifact = audio[filename]]]]
                /\ UNCHANGED <<ttsProgress, scratch>>
           ELSE /\ ttsProgress' = Put(ttsProgress, ProgressKey(pdfId, index), "processing")
                /\ scratch' = WriteScratch(scratch, TempFile(now), text, r)
                /\ req' = [req EXCEPT ![r] = Spawn(looked, r, text, filename)]
    /\ UNCHANGED <<now, pdfStore, audio, up>>
    /\ UNCHANGED chVars

\* -------------------------------------------------------- /api/tts/custom

CustomStart(r, text, voiceIn, rateIn) ==
    /\ FreeReq(r)
    /\ LET voice == VoiceOrDefault(voiceIn)
           rate == RateOrDefault(rateIn)
           filename == CustomFilename(now)
           base == [IdleReq EXCEPT !.kind = "custom", !.pc = "done", !.text = text,
                                   !.voice = voice, !.rate = rate,
                                   !.after = Responded]
       IN  IF text = <<>> \/ StrLen(text) < MinCustomChars
           THEN /\ req' = [req EXCEPT ![r] =
                     [base EXCEPT !.resp = [NoResp EXCEPT !.status = 400,
                                                          !.error = "Text required"]]]
                /\ UNCHANGED scratch
           ELSE /\ scratch' = WriteScratch(scratch, TempFile(now), CleanText(text), r)
                /\ req' = [req EXCEPT ![r] =
                     Spawn([base EXCEPT !.existed = filename \in DOMAIN audio],
                           r, CleanText(text), filename)]
    /\ UNCHANGED <<now, pdfStore, ttsProgress, audio, up>>
    /\ UNCHANGED chVars

\* ------------------------------------- /api/tts/progress/:pdfId/:chunkIndex

\* The handler only reads: ttsProgress.get(`${pdfId}_${chunkIndex}`), with
\* the URL's chunkIndex as it is written, or the 'pending' default.
GetProgress(pdfId, chunkIndex) ==
    LET key == pdfId \o <<"_">> \o chunkIndex
    IN  IF key \in DOMAIN ttsProgress THEN ttsProgress[key] ELSE "pending"

\* ------------------------------------------------- the edge-tts child process

\* The tool reads its --file and opens its --write-media file for writing,
\* which creates or truncates it.  If the scratch file is gone, it fails
\* before it opens anything.
ToolOpen(r) ==
    /\ req[r].pc = "exec"
    /\ IF req[r].tempFile \in DOMAIN scratch
       THEN /\ audio' = Put(audio, req[r].audioFilename,
                            [text |-> scratch[req[r].tempFile].text,
                             voice |-> req[r].voice, rate |-> ToolRate(req[r].rate),
                             complete |-> FALSE, by |-> r])
            /\ req' = [req EXCEPT ![r].pc = "toolrun",
                                  ![r].toolText = scratch[req[r].tempFile].text]
       ELSE /\ req' = [req EXCEPT ![r].pc = "exited", ![r].outcome = "failed"]
            /\ UNCHANGED audio
    /\ UNCHANGED <<now, pdfStore, ttsProgress, scratch, up>>
    /\ UNCHANGED chVars

\* The tool exits with status 0: the audio it synthesised is in the file.
\* If another run opened the same file meanwhile, the run that exits last
\* decides the content (the last writer wins).
ToolSucceed(r) ==
    /\ req[r].pc = "toolrun"
    /\ audio' = Put(audio, req[r].audioFilename,
                    [text |-> req[r].toolText, voice |-> req[r].voice,
                     rate |-> ToolRate(req[r].rate), complete |-> TRUE, by |-> r])
    /\ req' = [req EXCEPT ![r].pc = "exited", ![r].outcome = "ok"]
    /\ UNCHANGED <<now, pdfStore, ttsProgress, scratch, up>>
    /\ UNCHANGED chVars

\* The tool exits with an error, or is killed at the 120 s timeout; what it
\* had written to its output file, if it had opened it, stays.
ToolFail(r, how) ==
    /\ req[r].pc \in {"exec", "toolrun"}
    /\ req' = [req EXCEPT ![r].pc = "exited", ![r].outcome = how]
    /\ UNCHANGED <<now, pdfStore, ttsProgress, audio, scratch, up>>
    /\ UNCHANGED chVars

\* GenFinally with the unlink at the end of the try block instead of in a
\* finally block: a failed run skips it
GenFinallyLeak(r) ==
    /\ req[r].pc = "exited"
    /\ scratch' = IF req[r].outcome = "ok"
                  THEN Cleanup(scratch, req[r].tempFile)
                  ELSE scratch
    /\ req' = [req EXCEPT ![r] =
          IF req[r].outcome = "ok"
          THEN [req[r] EXCEPT !.pc = "duration"]
          ELSE [req[r] EXCEPT !.pc = "done",
                              !.resp = [NoResp EXCEPT !.status = 500,
                                                      !.error = "Command failed"]]]
    /\ UNCHANGED <<now, pdfStore, ttsProgress, audio, up>>
    /\ UNCHANGED chVars

\* execFileAsync settles: the finally block of generateTTS runs, then, after
\* a failure, the catch block of the handler
GenFinally(r) ==
    /\ req[r].pc = "exited"
    /\ scratch' = Cleanup(scratch, req[r].tempFile)
    /\ req' = [req EXCEPT ![r] =
          IF req[r].outcome = "ok"
          THEN [req[r] EXCEPT !.pc = "duration"]
          ELSE [req[r] EXCEPT !.pc = "done",
                              !.resp = [NoResp EXCEPT !.status = 500,
                                                      !.error = "Command failed"]]]
    /\ UNCHANGED <<now, pdfStore, ttsProgress, audio, up>>
    /\ UNCHANGED chVars

\* getAudioDuration resolves: the progress entry is completed (chunk requests)
\* and the success response sent
Complete(r) ==
    /\ req[r].pc = "duration"
    /\ ttsProgress' =
          IF req[r].kind = "tts"
          THEN Put(ttsProgress, ProgressKey(req[r].pdfId, req[r].index), "completed")
          ELSE ttsProgress
    /\ req' = [req EXCEPT ![r].pc = "done",
                          ![r].resp = [NoResp EXCEPT
                                !.status = 200,
                                !.audioUrl = AudioUrl(req[r].audioFilename),
                                !.artifact = audio[req[r].audioFilename]]]
    /\ UNCHANGED <<now, pdfStore, audio, scratch, up>>
    /\ UNCHANGED chVars

\* ------------------------------------------------- the chunker on its own

\* Bounds of the chunker specification: texts up to MaxTextLen atoms over
\* ChunkAlphabet, maxChars in 0..MaxMaxChars.
MaxTextLen == 5

MaxMaxChars == 5

ChunkAlphabet == {"a", "1", ".", " ", "\n", "U2026"}

RECURSIVE SeqsUpTo(_, _)
SeqsUpTo(S, n) ==
    IF n = 0 THEN {<<>>}
    ELSE LET shorter == SeqsUpTo(S, n - 1)
         IN  shorter \cup {Append(s, c) : s \in shorter, c \in S}

ChInit ==
    /\ chText \in SeqsUpTo(ChunkAlphabet, MaxTextLen)
    /\ chMax \in 0..MaxMaxChars
    /\ chStage = "raw"
    /\ chChunks = <<>>

\* fullText = cleanText(pdfData.text)
ChClean ==
    /\ chStage = "raw"
    /\ chText' = CleanText(chText)
    /\ chStage' = "clean"
    /\ UNCHANGED <<chMax, chChunks>>
    /\ UNCHANGED srvVars

\* chunks = splitIntoChunks(text, maxChars), on a raw or a normalised text
ChSplit ==
    /\ chStage \in {"raw", "clean"}
    /\ chChunks' = SplitIntoChunks(chText, chMax)
    /\ chStage' = "split"
    /\ UNCHANGED <<chText, chMax>>
    /\ UNCHANGED srvVars

ChIdle == chText = <<>> /\ chMax = 0 /\ chStage = "raw" /\ chChunks = <<>>

\* -------------------------------------------------------- specifications

vars == <<now, pdfStore, ttsProgress, audio, scratch, up, req,
          chText, chMax, chStage, chChunks>>

\* inputs of the requests
PdfFiles ==
    {[name |-> "long.pdf", text |-> <<"a{N}", ".", "\n", "b{N}", ".">>],
     [name |-> "short.pdf", text |-> <<"H", "i", ".">>]}

PdfIds == {Base36(t) : t \in StartTime..(StartTime + MaxTicks)}

GuyVoice ==
    <<"e", "n", "-", "U", "S", "-", "G", "u", "y", "N", "e", "u", "r", "a", "l">>

GuyVoiceNoDash ==
    <<"e", "n", "U", "S", "-", "G", "u", "y", "N", "e", "u", "r", "a", "l">>

Voices == {UndefinedVoice, GuyVoice, GuyVoiceNoDash}

Rates == {UndefinedRate, "+20%"}

Indexes == {JsonString(<<"0">>), JsonString(<<"1">>)}

\* 10^21 as a JSON number, e.g. the body {"chunkIndex": 1e21}
TenTo21 == JsonNumber(<<"1">> \o [k \in 1..21 |-> "0"])

\* chunkIndex values of POST /api/tts bodies and of the chunk route's URL
BodyIndexes ==
    {JsonString(<<"0">>), JsonNumber(<<"2">>), JsonNumber(<<"-", "1">>),
     JsonString(<<"x">>), TenTo21}

UrlIndexes ==
    {JsonString(<<"0">>), JsonString(<<"1">>), JsonString(<<"2">>),
     JsonString(<<"-", "1">>), JsonString(<<"x">>)}

CustomTexts == {<<>>, <<"a">>, <<"a", " ">>, <<"a", "b">>}

\* The cache: one upload slot, two overlapping or successive /api/tts requests.
Next ==
    \/ Tick
    \/ UploadNoFile("u1")
    \/ \E file \in PdfFiles : UploadBegin("u1", file)
    \/ UploadError("u1")
    \/ UploadParsed("u1")
    \/ \E r \in Req, pdfId \in PdfIds, i \in Indexes, v \in Voices, x \in Rates :
          TtsStart(r, pdfId, i, v, x)
    \/ \E r \in Req : ToolOpen(r)
    \/ \E r \in Req : ToolSucceed(r)
    \/ \E r \in Req, how \in {"failed", "timeout"} : ToolFail(r, how)
    \/ \E r \in Req : GenFinally(r)
    \/ \E r \in Req : Complete(r)

Init == SrvInit /\ ChIdle

Spec == Init /\ [][Next]_vars

\* The document table: two uploads, and one request for a chunk or for its
\* audio, with every kind of chunkIndex.
UploadNext ==
    \/ Tick
    \/ \E u \in Uploaders : UploadNoFile(u)
    \/ \E u \in Uploaders, file \in PdfFiles : UploadBegin(u, file)
    \/ \E u \in Uploaders : UploadError(u)
    \/ \E u \in Uploaders : UploadParsed(u)
    \/ \E pdfId \in PdfIds, i \in UrlIndexes : GetChunk("r1", pdfId, i)
    \/ \E pdfId \in PdfIds, i \in BodyIndexes :
          TtsStart("r1", pdfId, i, UndefinedVoice, UndefinedRate)
    \/ ToolOpen("r1")
    \/ ToolSucceed("r1")
    \/ \E how \in {"failed", "timeout"} : ToolFail("r1", how)
    \/ GenFinally("r1")
    \/ Complete("r1")

UploadSpec == Init /\ [][UploadNext]_vars

\* Ad-hoc synthesis: two /api/tts/custom requests.
CustomNext ==
    \/ Tick
    \/ \E r \in Req, text \in CustomTexts, v \in {UndefinedVoice, GuyVoice},
          x \in Rates : CustomStart(r, text, v, x)
    \/ \E r \in Req : ToolOpen(r)
    \/ \E r \in Req : ToolSucceed(r)
    \/ \E r \in Req, how \in {"failed", "timeout"} : ToolFail(r, how)
    \/ \E r \in Req : GenFinally(r)
    \/ \E r \in Req : Complete(r)

CustomSpec == Init /\ [][CustomNext]_vars

ChNext == ChClean \/ ChSplit

ChunkInit == SrvInit /\ ChInit

ChunkSpec == ChunkInit /\ [][ChNext]_vars

\* ------------------------------------------------------------- properties

\* a /api/tts request that passed its validation and computed its cache path
Looked(r) == req[r].kind = "tts" /\ req[r].audioFilename # <<>>

SameKey(r1, r2) ==
    /\ req[r1].pdfId = req[r2].pdfId
    /\ req[r1].index = req[r2].index
    /\ req[r1].voice = req[r2].voice

\* r2 began after r1 had responded with success; both are valid requests for
\* the same key, and no file was at the key's path when r1 looked
Successive(r1, r2) ==
    /\ r1 # r2
    /\ Looked(r1) /\ Looked(r2)
    /\ SameKey(r1, r2)
    /\ ~req[r1].existed
    /\ req[r1].pc = "done" /\ req[r1].resp.status = 200
    /\ r1 \in req[r2].after

\* C1 (Spec).  Idempotent cache: of two successive valid /api/tts requests
\* for the same key, with no artifact there before the first, the first
\* answers cached=false, the second answers cached=true with the same
\* audioUrl, and the synthesis tool is spawned by the first only.
C1_IdempotentCache ==
    \A r1 \in Req, r2 \in Req :
        Successive(r1, r2) =>
            /\ ~req[r1].resp.cached
            /\ req[r2].pc = "done"
            /\ req[r2].resp.status = 200
            /\ req[r2].resp.cached
            /\ req[r2].resp.audioUrl = req[r1].resp.audioUrl
            /\ req[r1].spawned
            /\ ~req[r2].spawned
            /\ Cardinality({r \in Req : req[r].spawned
                              /\ req[r].audioFilename = req[r1].audioFilename}) = 1

C1_Witness == \E r1 \in Req, r2 \in Req : Successive(r1, r2)

\* C2 (Spec).  After a /api/tts synthesis that failed or timed out, with no
\* successful synthesis for the key, a later /api/tts request for the same
\* key does not answer cached=true.
C2_FailedSynthesisNotCached ==
    \A r1 \in Req, r2 \in Req :
        (/\ r1 # r2
         /\ Looked(r1) /\ Looked(r2)
         /\ req[r1].audioFilename = req[r2].audioFilename
         /\ req[r1].pc = "done"
         /\ req[r1].outcome \in {"failed", "timeout"}
         /\ r1 \in req[r2].after
         /\ ~\E r \in Req : req[r].outcome = "ok"
                            /\ req[r].audioFilename = req[r1].audioFilename)
        => ~(req[r2].resp.status = 200 /\ req[r2].resp.cached)

\* C3 as claimed (Spec).  Once a finished artifact is at a cache path, no step
\* changes or removes the file at that path.
C3_CacheEntriesImmutable ==
    [][\A f \in DOMAIN audio :
          audio[f].complete => f \in DOMAIN audio' /\ audio'[f] = audio[f]]_vars

\* C3 as amended (Spec).  A file in the audio directory is never removed, and
\* every step that writes to an existing file is the tool run of a request
\* that found no file at that path when it looked the key up.
C3_OnlyEarlierMissesWrite ==
    [][\A f \in DOMAIN audio :
          /\ f \in DOMAIN audio'
          /\ audio'[f] # audio[f] =>
                /\ req[audio'[f].by].kind = "tts"
                /\ ~req[audio'[f].by].existed]_vars

\* a finished artifact was truncated by the tool run of an overlapping request
C3_Witness ==
    \E r1 \in Req, r2 \in Req :
        /\ r1 # r2
        /\ Looked(r1) /\ Looked(r2)
        /\ req[r1].audioFilename = req[r2].audioFilename
        /\ req[r1].outcome = "ok"
        /\ audio[req[r1].audioFilename].by = r2
        /\ ~audio[req[r1].audioFilename].complete

\* C4 (Spec).  Every successful /api/tts response refers to an artifact
\* synthesised from the text of the requested chunk, with the requested
\* voice and the requested rate.
C4_NoWrongArtifact ==
    \A r \in Req :
        (req[r].kind = "tts" /\ req[r].pc = "done" /\ req[r].resp.status = 200)
        => /\ req[r].resp.artifact.text = req[r].text
           /\ req[r].resp.artifact.voice = req[r].voice
           /\ req[r].resp.artifact.rate = req[r].rate

\* C5 (Spec).  Two /api/tts requests have the same audio file name exactly
\* when they have the same pdfId, chunk index and voice.
C5_FilenameCollisionFree ==
    \A r1 \in Req, r2 \in Req :
        (Looked(r1) /\ Looked(r2))
        => (SameKey(r1, r2) <=> req[r1].audioFilename = req[r2].audioFilename)

\* C6 (UploadSpec).  A document stored under an id is never replaced or
\* changed by a later step.
C6_DocumentsInsertOnce ==
    [][\A id \in DOMAIN pdfStore :
          id \in DOMAIN pdfStore' /\ pdfStore'[id] = pdfStore[id]]_vars

\* C7 (Spec).  Once generateTTS has settled, whatever the tool's outcome, the
\* scratch file the invocation wrote no longer exists.
C7_ScratchRemoved ==
    \A r \in Req :
        (req[r].spawned /\ req[r].pc \in {"duration", "done"})
        => ~(/\ req[r].tempFile \in DOMAIN scratch
             /\ r \in scratch[req[r].tempFile].writers)

C7_Witness ==
    /\ \E r \in Req : req[r].spawned /\ req[r].pc = "done"
                      /\ req[r].outcome = "timeout"
    /\ \E r \in Req : req[r].spawned /\ req[r].pc = "done"
                      /\ req[r].outcome = "ok"

\* the integer a chunkIndex denotes, when it is written as one
IsInteger(v) ==
    LET ds == IF v.chars # <<>> /\ Head(v.chars) = "-" THEN Tail(v.chars) ELSE v.chars
    IN  ds # <<>> /\ \A k \in 1..Len(ds) : IsDigit(ds[k])

IntegerOf(v) ==
    IF Head(v.chars) = "-" THEN -DecValue(Tail(v.chars)) ELSE DecValue(v.chars)

\* C8 (UploadSpec).  Range enforcement: a request for an unknown pdfId is
\* answered not-found; for a stored document with n chunks and an integer
\* index i, both routes answer 'Invalid chunk index' when i < 0 or i >= n,
\* and the chunk route succeeds with a chunk exactly when 0 <= i < n.
C8_RangeEnforcement ==
    \A r \in Req :
        req[r].kind \in {"chunk", "tts"} =>
            /\ ~req[r].known =>
                  req[r].resp.status = 404 /\ req[r].resp.error = "PDF not found"
            /\ (req[r].known /\ IsInteger(req[r].chunkIndex)) =>
                  LET i == IntegerOf(req[r].chunkIndex)
                      n == req[r].nChunks
                      inRange == 0 <= i /\ i < n
                  IN  /\ ~inRange => /\ req[r].pc = "done"
                                     /\ req[r].resp.status = 400
                                     /\ req[r].resp.error = "Invalid chunk index"
                      /\ req[r].kind = "chunk" =>
                            /\ req[r].resp.status = 200 <=> inRange
                            /\ req[r].resp.status = 200 => req[r].resp.hasText

\* C9 (CustomSpec).  Minimum length: a /api/tts/custom request with a text
\* shorter than 2 characters is rejected without a scratch file or a tool
\* run, and every text handed to the tool has at least 2 characters (10 for
\* a chunk request).
C9_MinimumLength ==
    \A r \in Req :
        /\ (req[r].kind = "custom" /\ StrLen(req[r].text) < MinCustomChars)
           => /\ ~req[r].spawned
              /\ req[r].resp.status = 400
        /\ req[r].spawned
           => StrLen(req[r].payload) >=
                 (IF req[r].kind = "custom" THEN MinCustomChars ELSE MinChunkChars)

\* C10 (ChunkSpec).  Chunk bound: every chunk of splitIntoChunks(text,
\* maxChars) is shorter than maxChars unless it is a single sentence of
\* length >= maxChars, and every such sentence is a chunk of its own.
C10_ChunkBound ==
    chStage = "split" =>
        LET ss == Sentences(chText)
            Oversized(k) == StrLen(ss[k]) >= chMax
        IN  /\ \A i \in 1..Len(chChunks) :
                  \/ StrLen(chChunks[i]) < chMax
                  \/ \E k \in 1..Len(ss) : Oversized(k) /\ chChunks[i] = Trim(ss[k])
            /\ \A k \in 1..Len(ss) :
                  (Oversized(k) /\ Trim(ss[k]) # <<>>)
                  => \E i \in 1..Len(chChunks) : chChunks[i] = Trim(ss[k])

\* an oversized sentence between two chunks that respect the bound
C10_Witness ==
    /\ chStage = "split"
    /\ Len(chChunks) >= 2
    /\ \E i \in 1..Len(chChunks) : StrLen(chChunks[i]) >= chMax
    /\ \E i \in 1..Len(chChunks) : StrLen(chChunks[i]) < chMax

\* chunks.join(' ')
RECURSIVE JoinWithSpaces(_)
JoinWithSpaces(chunks) ==
    IF chunks = <<>> THEN <<>>
    ELSE IF Len(chunks) = 1 THEN chunks[1]
    ELSE chunks[1] \o <<" ">> \o JoinWithSpaces(Tail(chunks))

\* a normalised text: trimmed, and its only whitespace is single spaces
Normalized(s) ==
    /\ Trim(s) = s
    /\ \A i \in 1..Len(s) : IsSpace(s[i]) => s[i] = " "
    /\ \A i \in 1..(Len(s) - 1) : ~(s[i] = " " /\ s[i + 1] = " ")

\* C11 (ChunkSpec).  Chunk reconstruction: the chunks of a normalised text
\* (every output of cleanText is one), joined with single spaces, are the
\* text itself, for every maxChars; and cleanText only produces normalised
\* texts.
C11_ChunkReconstruction ==
    /\ chStage = "clean" => Normalized(chText)
    /\ (chStage = "split" /\ Normalized(chText))
       => JoinWithSpaces(chChunks) = chText

\* three sentences in two chunks, the first chunk holding two of them
C11_Witness ==
    /\ chStage = "split"
    /\ Normalized(chText)
    /\ Len(Sentences(chText)) = 3
    /\ Len(chChunks) = 2
    /\ Len(Sentences(chChunks[1])) = 2

\* C12 (ChunkSpec).  splitIntoChunks never emits an empty chunk: for every
\* string, normalised or not, and every maxChars, each chunk is non-empty and
\* has no whitespace at either end; the empty string, and cleanText of the
\* empty string, give no chunks.
C12_NoEmptyChunk ==
    chStage = "split" =>
        /\ \A i \in 1..Len(chChunks) :
              chChunks[i] # <<>> /\ Trim(chChunks[i]) = chChunks[i]
        /\ chText = <<>> => chChunks = <<>>

\* a raw text that ends in an empty sentence and starts with whitespace,
\* each sentence too long for maxChars
C12_Witness ==
    /\ chStage = "split"
    /\ ~Normalized(chText)
    /\ chText # <<>>
    /\ IsSpace(chText[1])
    /\ Sentences(chText)[Len(Sentences(chText))] = <<>>
    /\ chMax = 0
    /\ Len(chChunks) >= 1

\* C13 (Spec).  Rate is not part of the cache key: once a request has
\* synthesised the artifact of a key at its rate, a later /api/tts request
\* for the same pdfId, index and voice with another rate answers cached=true
\* with that artifact, made at the first rate, and spawns no tool.
C13_RateNotInKey ==
    \A r1 \in Req, r2 \in Req :
        (Successive(r1, r2) /\ req[r1].rate # req[r2].rate) =>
            /\ req[r2].pc = "done"
            /\ req[r2].resp.status = 200
            /\ req[r2].resp.cached
            /\ req[r2].resp.audioUrl = req[r1].resp.audioUrl
            /\ req[r2].resp.artifact = req[r1].resp.artifact
            /\ req[r2].resp.artifact.rate = ToolRate(req[r1].rate)
            /\ req[r2].resp.artifact.rate # req[r2].rate
            /\ ~req[r2].spawned

C13_Witness ==
    \E r1 \in Req, r2 \in Req :
        /\ Successive(r1, r2)
        /\ req[r1].rate = "+20%"
        /\ req[r2].rate = DefaultRate
        /\ req[r2].resp.cached

\* C14 (Spec).  Scratch files do not interfere: while the tool of an
\* invocation has not finished, its scratch file exists, holds the text of
\* that invocation and was written by it alone; and the text a tool read is
\* the text of its own request.
C14_ScratchNotShared ==
    \A r \in Req :
        /\ (req[r].spawned /\ req[r].pc \in {"exec", "toolrun"})
           => /\ req[r].tempFile \in DOMAIN scratch
              /\ scratch[req[r].tempFile].text = req[r].payload
              /\ scratch[req[r].tempFile].writers = {r}
        /\ (req[r].spawned /\ req[r].pc # "exec" /\ req[r].toolText # <<>>)
           => req[r].toolText = req[r].payload

\* C15 (Spec).  The progress entry never stays 'processing': when a
\* /api/tts request that ran the synthesis has responded, and no other
\* request for the same pdfId and index is in flight, the progress route
\* reports 'completed' after a success and 'error' after a failure.
C15_ProgressSettles ==
    \A r \in Req :
        (/\ req[r].kind = "tts" /\ req[r].spawned /\ req[r].pc = "done"
         /\ ~\E o \in Req \ {r} :
               /\ req[o].kind = "tts" /\ req[o].pc \notin {"idle", "done"}
               /\ req[o].pdfId = req[r].pdfId /\ req[o].index = req[r].index)
        => LET p == GetProgress(req[r].pdfId, IndexToString(req[r].index))
           IN  /\ p # "processing"
               /\ req[r].resp.status = 200 => p = "completed"
               /\ req[r].resp.status # 200 => p = "error"

\* C16 (UploadSpec).  A successful chunk response carries a real chunk: the
\* chunk route answers 200 only if the parsed index is an integer inside
\* the chunks array and the response has the chunk's text; /api/tts looks
\* the cache up or spawns the tool only for such an index.
C16_RealChunk ==
    \A r \in Req :
        /\ (req[r].kind = "chunk" /\ req[r].resp.status = 200)
           => /\ ~req[r].index.nan
              /\ 0 <= req[r].index.val /\ req[r].index.val < req[r].nChunks
              /\ req[r].resp.hasText
        /\ (req[r].kind = "tts" /\ (req[r].audioFilename # <<>> \/ req[r].spawned))
           => /\ ~req[r].index.nan
              /\ 0 <= req[r].index.val /\ req[r].index.val < req[r].nChunks

\* C17 (CustomSpec).  Ad-hoc artifacts are private: two /api/tts/custom
\* requests that run the synthesis have different artifact paths, and a
\* successful response refers to audio that the request's own tool run
\* made from the request's own text and voice.
C17_AdHocPrivate ==
    /\ \A r1 \in Req, r2 \in Req :
          (/\ r1 # r2
           /\ req[r1].kind = "custom" /\ req[r1].spawned
           /\ req[r2].kind = "custom" /\ req[r2].spawned)
          => req[r1].audioFilename # req[r2].audioFilename
    /\ \A r \in Req :
          (req[r].kind = "custom" /\ req[r].pc = "done" /\ req[r].resp.status = 200)
          => /\ req[r].resp.artifact.by = r
             /\ req[r].resp.artifact.text = req[r].payload
             /\ req[r].resp.artifact.voice = req[r].voice

====
